---- MODULE Spec2Model ----
(***************************************************************************)
(* Model of the authenticated-request pipeline of daichi-ac-sdk: the       *)
(* DaichiClient (token fetch, token store, resource calls) and the         *)
(* AuthRoundTripper.                                                       *)
(*                                                                         *)
(* The sources hold two snapshots of package client:                       *)
(*   "http_client"    : http_client.go, unnamed/part_002 (AuthRoundTripper *)
(*                      with a func logger), authorized_client.go          *)
(*   "device_control" : device_control.go, auth_roundtripper.go            *)
(*                      (AuthRoundTripper with a *Logger), main.go         *)
(* The variable snapshot fixes which of the two a behaviour runs.          *)
(***************************************************************************)
EXTENDS Integers, Sequences, FiniteSets, TLC

VARIABLES
    snapshot,    \* which snapshot of package client is built
    username,    \* DaichiClient.username
    password,    \* DaichiClient.password
    httpTimeout, \* DaichiClient.httpClient.Timeout in seconds (0: none)
    withRetries, \* the argument of the option WithRetries ({}: not given)
    clientID,    \* DaichiClient.clientID
    token,       \* DaichiClient.token ("" = empty)
    rtToken,     \* AuthRoundTripper.Token
    refreshFn,   \* AuthRoundTripper.RefreshFn # nil
    call,        \* per caller: the invocation in progress or last finished
    failures     \* consecutive client calls that reached the transport and
                 \* returned an error (what c.breaker's IsError classifies)

vars == <<snapshot, username, password, httpTimeout, withRetries, clientID, token, rtToken, refreshFn, call, failures>>

----------------------------------------------------------------------------
(* Program constants *)

DefaultRetries == 3

DefaultClientID == "sOJO7B6SqgaKudTfCzqLAy540cCuDzpI"

\* http.Client.Timeout of the client NewDaichiClient builds, in seconds
RequestTimeout == 5

\* context.WithTimeout(ctx, 10*time.Second) of NewAuthorizedDaichiClient
AuthTimeout == 10

\* the longest a transport call with neither timeout nor deadline is
\* followed, in seconds
MaxWait == 6

\* CircuitBreakerConfig.MaxRequests of the breaker NewDaichiClient builds
MaxRequests == 5

StatusOK == 200
StatusUnauthorized == 401
StatusNotFound == 404
StatusMethodNotAllowed == 405

Statuses ==
    {StatusOK, StatusUnauthorized, StatusNotFound, StatusMethodNotAllowed, 500}

\* fmt's %d of a status code
CodeStr(s) ==
    CASE s = 200 -> "200"
      [] s = 401 -> "401"
      [] s = 404 -> "404"
      [] s = 405 -> "405"
      [] OTHER   -> "500"

----------------------------------------------------------------------------
(* Errors: nil is the empty chain; a sentinel is a one-element chain; a    *)
(* wrapping error (fmt.Errorf with %w) is its message followed by the      *)
(* chain it wraps; a %v argument is kept as text after the message.        *)

Nil == <<>>
ErrMissingCredentials == <<"ErrMissingCredentials">>
ErrTokenNotFound      == <<"ErrTokenNotFound">>
ErrTokenRefreshFailed == <<"ErrTokenRefreshFailed">>
ErrCircuitBreakerOpen == <<"ErrCircuitBreakerOpen">>
ErrMethodNotAllowed   == <<"ErrMethodNotAllowed">>
ErrTokenExpired       == <<"ErrTokenExpired">>
ErrEndpointNotFound   == <<"ErrEndpointNotFound">>

\* what the transport returns when it gets no HTTP response
NetErr      == <<"connection error">>
CtxCanceled == <<"context canceled">>
DeadlineExceeded == <<"context deadline exceeded">>

Wrap(msg, err) == <<msg>> \o err

----------------------------------------------------------------------------
(* The environment: callers, the tokens the server issues, its responses. *)

Callers == {"c1"}

Tokens == {"t1", "t2"}

NoErrors == "null"
SomeErrors == "invalid password"

\* A response whose body cannot be read or decoded carries no fields.
NoFields(r) ==
    /\ r.done = FALSE /\ r.upd = FALSE /\ r.errs = NoErrors /\ r.tok = ""

Responses ==
    { r \in [status : Statuses, readable : BOOLEAN, valid : BOOLEAN,
             done : BOOLEAN, upd : BOOLEAN, errs : {NoErrors, SomeErrors},
             tok : Tokens \cup {""}] :
        /\ (~r.readable => ~r.valid)
        /\ (~r.valid => NoFields(r)) }

\* RoundTrip reads the status code of a response only: one body per status
RoundTripResponses ==
    { r \in Responses :
        r.readable /\ r.valid /\ r.done /\ ~r.upd /\ r.errs = NoErrors /\ r.tok = "" }

NoAuth == ""
Bearer(t) == "Bearer " \o t

ClientOps == {"GetToken", "RefreshToken", "GetUserInfo", "GetBuildings",
              "GetDeviceState", "Ping"}
TokenOps == {"GetToken", "RefreshToken"}
\* the operations that run fetchToken
FetchOps == TokenOps \cup {"NewAuthorizedDaichiClient"}
ResourceOps == {"GetUserInfo", "GetBuildings", "GetDeviceState", "Ping"}

\* The operations each snapshot defines.
OpsOf(s) ==
    IF s = "http_client"
    THEN {"GetToken", "RefreshToken", "GetUserInfo", "GetBuildings", "Ping",
          "RoundTrip", "NewAuthorizedDaichiClient"}
    ELSE {"GetToken", "GetUserInfo", "GetBuildings", "GetDeviceState",
          "RoundTrip"}

\* The record of one invocation. log: the outcome of each transport call;
\* resps: the responses received; retIdx: which of them is returned (0: nil);
\* newToken: what RefreshFn returned; waits: the backoff waits completed; sent:
\* the Authorization header of each request sent; admitted: the circuit
\* breaker was asked to admit the call (no operation of either snapshot asks
\* c.breaker); auth, origAuth: the Authorization header of the request in
\* use and of the caller's request object; elapsed: the seconds spent in
\* failed transport calls and in backoff waits; deadline: the deadline of the
\* context, in seconds from the start ({}: none); opts, args: the options
\* and the positional credentials a constructor was called with; lock: the
\* hold on c.tokenMutex ("R", "W" or none); access: the token slot being read
\* or written; pending: the words of a string assignment not yet stored.
IdleCall ==
    [op |-> "none", pc |-> "done", i |-> 0, log |-> <<>>, resps |-> <<>>,
     waits |-> <<>>, sent |-> <<>>, cancelled |-> FALSE, err |-> Nil,
     ret |-> "", retIdx |-> 0, newToken |-> "", wrote |-> FALSE, refreshes |-> 0,
     admitted |-> FALSE, auth |-> NoAuth, origAuth |-> NoAuth,
     isClone |-> FALSE, elapsed |-> 0, deadline |-> {},
     opts |-> <<>>, args |-> <<>>,
     lock |-> "", access |-> "", pending |-> {}]

----------------------------------------------------------------------------
(* NewDaichiClient with options, and an AuthRoundTripper value. *)

Init ==
    /\ snapshot \in {"http_client", "device_control"}
    /\ username \in {"", "user"}
    /\ password \in {"", "secret"}
    /\ httpTimeout = RequestTimeout
    /\ withRetries = {}
    /\ clientID = DefaultClientID
    /\ token = ""
    /\ rtToken \in Tokens \cup {""}
    /\ refreshFn \in BOOLEAN
    /\ call = [p \in Callers |-> IdleCall]
    /\ failures = 0

\* IsError of the breaker's configuration: err != nil
IsError(err) == err # Nil

\* The run of failed outbound calls after the invocation c: a client call
\* that has returned after reaching the transport extends or ends it.
FailuresAfter(c) ==
    IF c.op \in ClientOps /\ c.pc = "done" /\ Len(c.log) > 0
    THEN IF IsError(c.err)
         THEN IF failures < MaxRequests THEN failures + 1 ELSE MaxRequests
         ELSE 0
    ELSE failures

Update(p, c) ==
    /\ call' = [call EXCEPT ![p] = c]
    /\ failures' = FailuresAfter(c)

Finish(p, c, err, ret) ==
    Update(p, [c EXCEPT !.pc = "done", !.err = err, !.ret = ret])

----------------------------------------------------------------------------
(* Token acquisition: GetToken, RefreshToken, fetchToken. *)

MutMissingCredentials(u, pw) == u = "" /\ pw = ""

MissingCredentials(u, pw) == u = "" \/ pw = ""

MutLoopContinues(i) == i <= DefaultRetries

\* fetchToken's loop condition, http_client.go: for i := 0; i < DefaultRetries; i++
LoopContinues(i) == i < DefaultRetries

\* the wait after the failed attempt with loop index i
Backoff(i) == i + 1

MutFetchOutcomeHC(r) ==
    IF r.status = StatusMethodNotAllowed THEN [err |-> ErrMethodNotAllowed, tok |-> ""]
    ELSE IF r.status = StatusNotFound THEN [err |-> ErrEndpointNotFound, tok |-> ""]
    ELSE IF r.status # StatusOK
        THEN [err |-> <<"token request failed with status", CodeStr(r.status)>>, tok |-> ""]
    ELSE IF ~r.valid THEN [err |-> <<"failed to decode token response", "json">>, tok |-> ""]
    ELSE IF ~r.done THEN [err |-> <<"token request failed", r.errs>>, tok |-> ""]
    ELSE IF r.upd THEN [err |-> ErrTokenRefreshFailed, tok |-> ""]
    ELSE IF r.errs # NoErrors THEN [err |-> <<"server returned errors", r.errs>>, tok |-> ""]
    ELSE [err |-> Nil, tok |-> r.tok]

\* The checks of fetchToken on an HTTP response, in the order of the code.
\* [err, tok]: the error returned, or Nil and the token.
FetchOutcomeHC(r) ==
    IF r.status = StatusMethodNotAllowed THEN [err |-> ErrMethodNotAllowed, tok |-> ""]
    ELSE IF r.status = StatusNotFound THEN [err |-> ErrEndpointNotFound, tok |-> ""]
    ELSE IF r.status # StatusOK
        THEN [err |-> <<"token request failed with status", CodeStr(r.status)>>, tok |-> ""]
    ELSE IF ~r.valid THEN [err |-> <<"failed to decode token response", "json">>, tok |-> ""]
    ELSE IF ~r.done THEN [err |-> <<"token request failed", r.errs>>, tok |-> ""]
    ELSE IF r.upd THEN [err |-> ErrTokenRefreshFailed, tok |-> ""]
    ELSE IF r.errs # NoErrors THEN [err |-> <<"server returned errors", r.errs>>, tok |-> ""]
    ELSE IF r.tok = "" THEN [err |-> ErrTokenNotFound, tok |-> ""]
    ELSE [err |-> Nil, tok |-> r.tok]

\* device_control.go: no check of the status code.
FetchOutcomeDC(r) ==
    IF ~r.readable THEN [err |-> <<"failed to read token response", "io">>, tok |-> ""]
    ELSE IF ~r.valid THEN [err |-> <<"token unmarshal failed", "json">>, tok |-> ""]
    ELSE IF ~r.done THEN [err |-> <<"token request failed", r.errs>>, tok |-> ""]
    ELSE IF r.upd THEN [err |-> ErrTokenRefreshFailed, tok |-> ""]
    ELSE IF r.errs # NoErrors THEN [err |-> <<"server returned errors", r.errs>>, tok |-> ""]
    ELSE IF r.tok = "" THEN [err |-> ErrTokenNotFound, tok |-> ""]
    ELSE [err |-> Nil, tok |-> r.tok]

FetchOutcome(s, r) ==
    IF s = "http_client" THEN FetchOutcomeHC(r) ELSE FetchOutcomeDC(r)

\* GetToken returns fetchToken's error as it is, RefreshToken wraps it.
TokenOpErr(op, err) ==
    IF op = "RefreshToken" THEN Wrap("token refresh failed", err) ELSE err

\* the deadline of the invocation's context has passed
Expired(c) == \E D \in c.deadline : c.elapsed >= D

\* what ends a transport call of the invocation c that gets no response: the
\* client's Timeout (0: none) and the time left to the context's deadline
Limits(c) ==
    (IF httpTimeout > 0 THEN {httpTimeout} ELSE {})
        \cup {D - c.elapsed : D \in c.deadline}

Least(S) == CHOOSE x \in S : \A y \in S : x <= y

\* the seconds a failing httpClient.Do(req) takes: it fails at once, or when
\* the first of its limits is reached
DoDurations(c) ==
    IF c.cancelled \/ Expired(c) THEN {0}
    ELSE IF Limits(c) = {} THEN {0, MaxWait}
    ELSE {0, Least(Limits(c))}

\* what httpClient.Do returns when it gets no response
DoErr(c) ==
    IF c.cancelled THEN CtxCanceled
    ELSE IF Expired(c) THEN DeadlineExceeded
    ELSE NetErr
DoErrLog(c) ==
    IF c.cancelled THEN "canceled"
    ELSE IF Expired(c) THEN "deadline"
    ELSE "neterr"

\* GetToken / RefreshToken up to the first transport call.
StartToken(p, op) ==
    /\ call[p].pc = "done"
    /\ op \in TokenOps \cap OpsOf(snapshot)
    /\ LET c == [IdleCall EXCEPT !.op = op, !.pc = "do"]
       IN  IF MissingCredentials(username, password)
           THEN Finish(p, c, ErrMissingCredentials, "")
           ELSE Update(p, c)
    /\ UNCHANGED <<snapshot, username, password, httpTimeout, withRetries, clientID, token, rtToken, refreshFn>>

\* NewAuthorizedDaichiClient: NewDaichiClient(opts...) with the credentials,
\* then client.GetToken under context.WithTimeout(ctx, 10*time.Second). The
\* client it builds is the one Init describes: it is the first operation.
StartAuthorized(p) ==
    /\ "NewAuthorizedDaichiClient" \in OpsOf(snapshot)
    /\ call = [q \in Callers |-> IdleCall]
    /\ token = "" /\ failures = 0
    /\ LET c == [IdleCall EXCEPT !.op = "NewAuthorizedDaichiClient", !.pc = "do",
                                 !.deadline = {AuthTimeout}]
       IN  IF MissingCredentials(username, password)
           THEN Finish(p, c, ErrMissingCredentials, "")
           ELSE Update(p, c)
    /\ UNCHANGED <<snapshot, username, password, httpTimeout, withRetries, clientID, token, rtToken, refreshFn>>

\* c.httpClient.Do(req) returns an error, after d seconds.
FetchDoFail(p) ==
    /\ call[p].pc = "do"
    /\ call[p].op \in FetchOps
    /\ \E d \in DoDurations(call[p]) :
        LET t == [call[p] EXCEPT !.elapsed = @ + d]
            c == [t EXCEPT !.log = Append(@, DoErrLog(t)),
                           !.sent = Append(@, call[p].auth),
                           !.err = DoErr(t)]
        IN  IF snapshot = "http_client"
            THEN Update(p, [c EXCEPT !.pc = "sleep"])
            ELSE Finish(p, c, TokenOpErr(c.op, Wrap("token request failed", c.err)), "")
    /\ UNCHANGED <<snapshot, username, password, httpTimeout, withRetries, clientID, token, rtToken, refreshFn>>

MutFetchDoResp(p, r) ==
    /\ call[p].pc = "do"
    /\ call[p].op \in FetchOps
    /\ ~call[p].cancelled
    /\ ~Expired(call[p])
    /\ LET c == [call[p] EXCEPT !.log = Append(@, "resp"),
                                !.sent = Append(@, call[p].auth),
                                !.resps = Append(@, r),
                                !.err = Nil]
           out == FetchOutcome(snapshot, r)
       IN  IF out.err # Nil
           THEN Finish(p, c, TokenOpErr(c.op, out.err), "")
           ELSE Update(p, [c EXCEPT !.pc = "store", !.ret = out.tok])
    /\ token' = r.tok
    /\ UNCHANGED <<snapshot, username, password, httpTimeout, withRetries, clientID, rtToken, refreshFn>>

\* c.httpClient.Do(req) returns the response r: the loop ends, r is checked.
FetchDoResp(p, r) ==
    /\ call[p].pc = "do"
    /\ call[p].op \in FetchOps
    /\ ~call[p].cancelled
    /\ ~Expired(call[p])
    /\ LET c == [call[p] EXCEPT !.log = Append(@, "resp"),
                                !.sent = Append(@, call[p].auth),
                                !.resps = Append(@, r),
                                !.err = Nil]
           out == FetchOutcome(snapshot, r)
       IN  IF out.err # Nil
           THEN Finish(p, c, TokenOpErr(c.op, out.err), "")
           ELSE Update(p, [c EXCEPT !.pc = "store", !.ret = out.tok])
    /\ UNCHANGED <<snapshot, username, password, httpTimeout, withRetries, clientID, token, rtToken, refreshFn>>

\* time.Sleep(time.Duration(i+1) * time.Second), then i++ and the loop test.
FetchSleep(p) ==
    /\ call[p].pc = "sleep"
    /\ LET c == [call[p] EXCEPT !.waits = Append(@, Backoff(call[p].i)),
                                !.elapsed = @ + Backoff(call[p].i),
                                !.i = @ + 1]
       IN  IF LoopContinues(c.i)
           THEN Update(p, [c EXCEPT !.pc = "do"])
           ELSE Finish(p, c, TokenOpErr(c.op, Wrap("token request failed", c.err)), "")
    /\ UNCHANGED <<snapshot, username, password, httpTimeout, withRetries, clientID, token, rtToken, refreshFn>>

\* c.tokenMutex.Lock(); c.token = token; c.tokenMutex.Unlock(); return
StoreToken(p) ==
    /\ call[p].pc = "store"
    /\ token' = call[p].ret
    /\ Update(p, [call[p] EXCEPT !.pc = "done", !.wrote = TRUE, !.err = Nil,
                                 !.ret = IF call[p].op = "NewAuthorizedDaichiClient"
                                         THEN "client" ELSE @])
    /\ UNCHANGED <<snapshot, username, password, httpTimeout, withRetries, clientID, rtToken, refreshFn>>

----------------------------------------------------------------------------
(* Resource calls: GetUserInfo, GetBuildings, GetDeviceState, Ping.        *)
(* Each builds its request, reading the token under the read lock, and     *)
(* hands it to c.httpClient.Do; c.breaker is stored by NewDaichiClient and *)
(* used by none of them.                                                   *)

MutAuthHeader(t) == IF t # "" THEN "Bearer" ELSE NoAuth

\* buildUserInfoRequest and its like: the Authorization header of the request
AuthHeader(t) == IF t # "" THEN Bearer(t) ELSE NoAuth

ServerErrorsMsg(s) ==
    IF s = "http_client" THEN "server returned errors" ELSE "server errors"

\* GetUserInfo and GetBuildings check the response alike in both snapshots.
EnvelopeOutcome(s, r) ==
    IF r.status = StatusNotFound THEN ErrEndpointNotFound
    ELSE IF r.status = StatusMethodNotAllowed THEN ErrMethodNotAllowed
    ELSE IF r.status # StatusOK THEN <<"non-200 status code", CodeStr(r.status)>>
    ELSE IF ~r.readable THEN <<"failed to read response", "io">>
    ELSE IF ~r.valid THEN <<"failed to decode response", "json">>
    ELSE IF ~r.done THEN <<ServerErrorsMsg(s), r.errs>>
    ELSE Nil

PingOutcome(r) ==
    IF r.status = StatusNotFound THEN ErrEndpointNotFound
    ELSE IF r.status # StatusOK THEN <<"non-200 status code", CodeStr(r.status)>>
    ELSE IF ~r.readable THEN <<"failed to read response body", "io">>
    ELSE Nil

\* GetDeviceState looks at the body only.
DeviceStateOutcome(r) ==
    IF ~r.readable THEN <<"failed to read device response", "io">>
    ELSE IF ~r.valid THEN <<"invalid JSON response", "json">>
    ELSE IF ~r.done THEN <<"server errors", r.errs>>
    ELSE Nil

ResourceOutcome(s, op, r) ==
    CASE op = "Ping" -> PingOutcome(r)
      [] op = "GetDeviceState" -> DeviceStateOutcome(r)
      [] OTHER -> EnvelopeOutcome(s, r)

StartResource(p, op) ==
    /\ call[p].pc = "done"
    /\ op \in ResourceOps \cap OpsOf(snapshot)
    /\ Update(p, [IdleCall EXCEPT !.op = op, !.pc = "do", !.auth = AuthHeader(token)])
    /\ UNCHANGED <<snapshot, username, password, httpTimeout, withRetries, clientID, token, rtToken, refreshFn>>

ResourceDoFail(p) ==
    /\ call[p].pc = "do"
    /\ call[p].op \in ResourceOps
    /\ LET c == [call[p] EXCEPT !.log = Append(@, DoErrLog(call[p])),
                                !.sent = Append(@, call[p].auth)]
       IN  Finish(p, c, Wrap("API unreachable", DoErr(call[p])), "")
    /\ UNCHANGED <<snapshot, username, password, httpTimeout, withRetries, clientID, token, rtToken, refreshFn>>

ResourceDoResp(p, r) ==
    /\ call[p].pc = "do"
    /\ call[p].op \in ResourceOps
    /\ ~call[p].cancelled
    /\ LET c == [call[p] EXCEPT !.log = Append(@, "resp"),
                                !.sent = Append(@, call[p].auth),
                                !.resps = Append(@, r)]
           err == ResourceOutcome(snapshot, c.op, r)
       IN  Finish(p, [c EXCEPT !.retIdx = IF err = Nil THEN 1 ELSE 0], err,
                  IF err = Nil THEN "data" ELSE "")
    /\ UNCHANGED <<snapshot, username, password, httpTimeout, withRetries, clientID, token, rtToken, refreshFn>>

----------------------------------------------------------------------------
(* AuthRoundTripper.RoundTrip: part_002 in snapshot http_client,          *)
(* auth_roundtripper.go in snapshot device_control.                       *)

\* part_002 stores the refreshed token in rt.Token; auth_roundtripper.go does not.
TokenAfterRefresh(s, old, new) == IF s = "http_client" THEN new ELSE old

\* part_002 clones the request for the retry; auth_roundtripper.go sets the
\* header on req, which is the caller's request when rt.Token was empty.
RetryIsClone(s, c) == IF s = "http_client" THEN TRUE ELSE c.isClone

MutFirstOutcome(r) ==
    IF r.status = StatusMethodNotAllowed THEN [err |-> ErrMethodNotAllowed, idx |-> 0]
    ELSE IF r.status = StatusNotFound THEN [err |-> ErrEndpointNotFound, idx |-> 0]
    ELSE IF r.status # StatusOK THEN [err |-> <<"unexpected status">>, idx |-> 0]
    ELSE [err |-> Nil, idx |-> 1]

\* the first response of RoundTrip, when it is not 401
FirstOutcome(r) ==
    IF r.status = StatusMethodNotAllowed THEN [err |-> ErrMethodNotAllowed, idx |-> 0]
    ELSE IF r.status = StatusNotFound THEN [err |-> ErrEndpointNotFound, idx |-> 0]
    ELSE [err |-> Nil, idx |-> 1]

\* return resp, ErrTokenExpired: a 401 with no RefreshFn
MutNoRefreshOutcome(r) == [err |-> Nil, idx |-> 1]

NoRefreshOutcome(r) == [err |-> ErrTokenExpired, idx |-> 1]

MutRetryOutcome(r) == [err |-> Nil, idx |-> 1]

\* return rt.Transport.RoundTrip(newReq): the retried response as it is
RetryOutcome(r) == [err |-> Nil, idx |-> 2]

StartRoundTrip(p) ==
    /\ call[p].pc = "done"
    /\ "RoundTrip" \in OpsOf(snapshot)
    /\ Update(p, [IdleCall EXCEPT !.op = "RoundTrip", !.pc = "do",
                                   !.isClone = (rtToken # ""),
                                   !.auth = AuthHeader(rtToken)])
    /\ UNCHANGED <<snapshot, username, password, httpTimeout, withRetries, clientID, token, rtToken, refreshFn>>

MutRoundTripDoFail(p) ==
    /\ call[p].pc = "do"
    /\ call[p].op = "RoundTrip"
    /\ LET c == [call[p] EXCEPT !.log = Append(@, DoErrLog(call[p])),
                                !.sent = Append(@, call[p].auth)]
       IN  Finish(p, c, Wrap("request failed", DoErr(call[p])), "")
    /\ UNCHANGED <<snapshot, username, password, httpTimeout, withRetries, clientID, token, rtToken, refreshFn>>

\* rt.Transport.RoundTrip(req) returns an error: it is returned as it is.
RoundTripDoFail(p) ==
    /\ call[p].pc = "do"
    /\ call[p].op = "RoundTrip"
    /\ LET c == [call[p] EXCEPT !.log = Append(@, DoErrLog(call[p])),
                                !.sent = Append(@, call[p].auth)]
       IN  Finish(p, c, DoErr(call[p]), "")
    /\ UNCHANGED <<snapshot, username, password, httpTimeout, withRetries, clientID, token, rtToken, refreshFn>>

RoundTripDoResp(p, r) ==
    /\ call[p].pc = "do"
    /\ call[p].op = "RoundTrip"
    /\ ~call[p].cancelled
    /\ LET c == [call[p] EXCEPT !.log = Append(@, "resp"),
                                !.sent = Append(@, call[p].auth),
                                !.resps = Append(@, r)]
           out == FirstOutcome(r)
       IN  IF r.status = StatusUnauthorized
           THEN IF refreshFn
                THEN Update(p, [c EXCEPT !.pc = "refresh"])
                ELSE Finish(p, [c EXCEPT !.retIdx = NoRefreshOutcome(r).idx],
                            NoRefreshOutcome(r).err, "")
           ELSE Finish(p, [c EXCEPT !.retIdx = out.idx], out.err, "")
    /\ UNCHANGED <<snapshot, username, password, httpTimeout, withRetries, clientID, token, rtToken, refreshFn>>

MutRefreshFailOutcome == [err |-> ErrTokenExpired, idx |-> 1]

\* return nil, ErrTokenRefreshFailed: RefreshFn returned an error
RefreshFailOutcome == [err |-> ErrTokenRefreshFailed, idx |-> 0]

\* rt.RefreshFn(req.Context()) fails.
RefreshFail(p) ==
    /\ call[p].pc = "refresh"
    /\ Finish(p, [call[p] EXCEPT !.refreshes = @ + 1,
                                 !.retIdx = RefreshFailOutcome.idx],
              RefreshFailOutcome.err, "")
    /\ UNCHANGED <<snapshot, username, password, httpTimeout, withRetries, clientID, token, rtToken, refreshFn>>

\* rt.RefreshFn(req.Context()) returns the token t.
RefreshOk(p, t) ==
    /\ call[p].pc = "refresh"
    /\ rtToken' = TokenAfterRefresh(snapshot, rtToken, t)
    /\ Update(p, [call[p] EXCEPT !.pc = "retry", !.refreshes = @ + 1,
                                 !.newToken = t,
                                 !.auth = Bearer(t),
                                 !.origAuth = IF RetryIsClone(snapshot, call[p])
                                              THEN @ ELSE Bearer(t)])
    /\ UNCHANGED <<snapshot, username, password, httpTimeout, withRetries, clientID, token, refreshFn>>

RetryDoFail(p) ==
    /\ call[p].pc = "retry"
    /\ LET c == [call[p] EXCEPT !.log = Append(@, DoErrLog(call[p])),
                                !.sent = Append(@, call[p].auth)]
       IN  Finish(p, c, DoErr(call[p]), "")
    /\ UNCHANGED <<snapshot, username, password, httpTimeout, withRetries, clientID, token, rtToken, refreshFn>>

MutRetryDoResp(p, r) ==
    /\ call[p].pc = "retry"
    /\ ~call[p].cancelled
    /\ LET c == [call[p] EXCEPT !.log = Append(@, "resp"),
                                !.sent = Append(@, call[p].auth),
                                !.resps = Append(@, r)]
           out == RetryOutcome(r)
       IN  IF r.status = StatusUnauthorized
           THEN Update(p, [c EXCEPT !.pc = "refresh"])
           ELSE Finish(p, [c EXCEPT !.retIdx = out.idx], out.err, "")
    /\ UNCHANGED <<snapshot, username, password, httpTimeout, withRetries, clientID, token, rtToken, refreshFn>>

RetryDoResp(p, r) ==
    /\ call[p].pc = "retry"
    /\ ~call[p].cancelled
    /\ LET c == [call[p] EXCEPT !.log = Append(@, "resp"),
                                !.sent = Append(@, call[p].auth),
                                !.resps = Append(@, r)]
           out == RetryOutcome(r)
       IN  Finish(p, [c EXCEPT !.retIdx = out.idx], out.err, "")
    /\ UNCHANGED <<snapshot, username, password, httpTimeout, withRetries, clientID, token, rtToken, refreshFn>>

----------------------------------------------------------------------------
\* The caller's context is cancelled while the invocation is in progress.
Cancel(p) ==
    /\ call[p].pc # "done"
    /\ ~call[p].cancelled
    /\ call' = [call EXCEPT ![p].cancelled = TRUE]
    /\ UNCHANGED <<snapshot, username, password, httpTimeout, withRetries, clientID, token, rtToken, refreshFn, failures>>

Next ==
    \E p \in Callers :
        \/ \E op \in TokenOps : StartToken(p, op)
        \/ StartAuthorized(p)
        \/ FetchDoFail(p)
        \/ \E r \in Responses : FetchDoResp(p, r)
        \/ FetchSleep(p)
        \/ StoreToken(p)
        \/ \E op \in ResourceOps : StartResource(p, op)
        \/ ResourceDoFail(p)
        \/ \E r \in Responses : ResourceDoResp(p, r)
        \/ StartRoundTrip(p)
        \/ RoundTripDoFail(p)
        \/ \E r \in RoundTripResponses : RoundTripDoResp(p, r)
        \/ RefreshFail(p)
        \/ \E t \in Tokens : RefreshOk(p, t)
        \/ RetryDoFail(p)
        \/ \E r \in RoundTripResponses : RetryDoResp(p, r)
        \/ Cancel(p)

Spec == Init /\ [][Next]_vars

----------------------------------------------------------------------------
(* Properties *)

Done(p) == call[p].pc = "done"
Calls(p) == Len(call[p].log)
FirstStatus(p) == call[p].resps[1].status
CredentialsMissing == username = "" \/ password = ""

\* the sentinel is in the chain of err
Is(err, sentinel) == \E k \in 1..Len(err) : err[k] = sentinel[1]

\* C1: with an empty username or password, GetToken and RefreshToken fail
\* with ErrMissingCredentials, make no transport call and do not write the
\* token.
C1_MissingCredentialsNoIO ==
    \A p \in Callers :
        (call[p].op \in TokenOps /\ CredentialsMissing) =>
            /\ Done(p)
            /\ call[p].err = ErrMissingCredentials
            /\ Calls(p) = 0
            /\ ~call[p].wrote
            /\ token = ""

C1_Witness ==
    \E p \in Callers :
        /\ call[p].op = "RefreshToken" /\ Done(p)
        /\ username = "" /\ password # ""
        /\ call[p].err = ErrMissingCredentials

\* C2: fetchToken of http_client.go makes exactly DefaultRetries transport
\* calls when every attempt fails and then returns an error; when attempt k
\* is the first to get a response it makes exactly k calls; the attempt
\* counter starts at 0 in each invocation and never exceeds DefaultRetries.
C2_BoundedRetry ==
    \A p \in Callers :
        (snapshot = "http_client" /\ call[p].op \in TokenOps) =>
            /\ Calls(p) <= DefaultRetries
            /\ call[p].i <= DefaultRetries
            /\ call[p].pc = "do" => call[p].i = Calls(p) /\ call[p].resps = <<>>
            /\ (Done(p) /\ ~CredentialsMissing /\ call[p].resps = <<>>) =>
                    /\ Calls(p) = DefaultRetries
                    /\ call[p].err # Nil
                    /\ call[p].err[Len(call[p].err)] \in {NetErr[1], CtxCanceled[1]}
            /\ call[p].resps # <<>> =>
                    /\ Len(call[p].resps) = 1
                    /\ call[p].log[Calls(p)] = "resp"
                    /\ \A k \in 1..(Calls(p) - 1) : call[p].log[k] # "resp"

C2_Witness ==
    \E p \in Callers :
        /\ snapshot = "http_client" /\ call[p].op = "GetToken" /\ Done(p)
        /\ call[p].log = <<"neterr", "neterr", "neterr">>
        /\ call[p].err = Wrap("token request failed", NetErr)

\* C3: a token fetch whose first transport call is answered 404 returns
\* ErrEndpointNotFound, one answered 405 returns ErrMethodNotAllowed; one
\* transport call is made and the token is not written.
C3_NotFoundNotRetried ==
    \A p \in Callers :
        (call[p].op \in TokenOps /\ Done(p) /\ call[p].resps # <<>>
            /\ call[p].log[1] = "resp") =>
            /\ FirstStatus(p) = StatusNotFound =>
                    /\ Is(call[p].err, ErrEndpointNotFound)
                    /\ Calls(p) = 1 /\ ~call[p].wrote
            /\ FirstStatus(p) = StatusMethodNotAllowed =>
                    /\ Is(call[p].err, ErrMethodNotAllowed)
                    /\ Calls(p) = 1 /\ ~call[p].wrote

\* C4: RoundTrip, first response 401 and RefreshFn succeeding: two transport
\* calls, the second with "Bearer <new token>", one refresh, and the caller
\* gets the second call's response.
C4_RefreshThenRetryOnce ==
    \A p \in Callers :
        (call[p].op = "RoundTrip" /\ call[p].newToken \in Tokens) =>
            /\ call[p].refreshes = 1
            /\ FirstStatus(p) = StatusUnauthorized
            /\ call[p].pc = "retry" => Calls(p) = 1
            /\ Done(p) =>
                    /\ Calls(p) = 2
                    /\ call[p].sent[2] = Bearer(call[p].newToken)
                    /\ call[p].log[2] = "resp" =>
                            /\ Len(call[p].resps) = 2
                            /\ call[p].retIdx = 2
                            /\ call[p].err = Nil

C4_Witness ==
    \E p \in Callers :
        /\ call[p].op = "RoundTrip" /\ Done(p)
        /\ Len(call[p].resps) = 2
        /\ call[p].resps[1].status = StatusUnauthorized
        /\ call[p].resps[2].status = StatusOK
        /\ call[p].newToken = "t2" /\ call[p].sent[2] = "Bearer t2"
        /\ call[p].retIdx = 2

\* C5: RoundTrip, the retried request answered 401 too: ErrTokenExpired is
\* returned, with no third transport call and no second refresh.
C5_SecondUnauthorizedIsTokenExpired ==
    \A p \in Callers :
        (call[p].op = "RoundTrip" /\ Done(p) /\ Len(call[p].resps) = 2
            /\ call[p].resps[2].status = StatusUnauthorized) =>
            /\ call[p].err = ErrTokenExpired
            /\ Calls(p) = 2
            /\ call[p].refreshes = 1

\* C6: RoundTrip with RefreshFn nil and a 401 response returns
\* ErrTokenExpired after exactly one transport call.
C6_NoRefreshFnTokenExpired ==
    \A p \in Callers :
        (call[p].op = "RoundTrip" /\ ~refreshFn /\ call[p].resps # <<>>
            /\ FirstStatus(p) = StatusUnauthorized) =>
            /\ Done(p)
            /\ call[p].err = ErrTokenExpired
            /\ Calls(p) = 1
            /\ call[p].refreshes = 0

C6_Witness ==
    \E p \in Callers :
        /\ call[p].op = "RoundTrip" /\ Done(p) /\ ~refreshFn
        /\ Len(call[p].resps) = 1
        /\ FirstStatus(p) = StatusUnauthorized
        /\ call[p].err = ErrTokenExpired

C8_ResourceCallRecoversFrom401 ==
    \A p \in Callers :
        (call[p].op \in {"GetUserInfo", "GetBuildings", "GetDeviceState"}
            /\ Done(p) /\ call[p].resps # <<>> /\ call[p].sent[1] # NoAuth
            /\ FirstStatus(p) = StatusUnauthorized) =>
            /\ Calls(p) = 2
            /\ call[p].sent[2] = Bearer(token)
            /\ call[p].sent[2] # call[p].sent[1]

\* A transport attempt that went out: a Do on a cancelled context returns
\* at once and is none.
Attempts(c) == Cardinality({k \in 1..Len(c.log) : c.log[k] # "canceled"})

\* C9: once the context of a token fetch is cancelled, the fetch makes no
\* further transport attempt and completes no further backoff wait.
C9_CancelStopsFetch ==
    [][\A p \in Callers :
            (call[p].op \in TokenOps /\ call[p].cancelled /\ call[p].pc # "done") =>
                /\ Attempts(call'[p]) = Attempts(call[p])
                /\ call'[p].waits = call[p].waits]_vars

\* C10: after MaxRequests consecutive failed calls the breaker is open: the
\* next call of the client is rejected with the circuit-open error and makes
\* no transport call.
C10_OpenBreakerRejects ==
    [][\A p \in Callers :
            (failures >= MaxRequests /\ call'[p].op \in ClientOps) =>
                /\ Len(call'[p].log) <= Len(call[p].log)
                /\ (call[p].pc = "done" /\ call'[p] # call[p]
                        /\ call'[p].err # ErrMissingCredentials) =>
                        /\ call'[p].pc = "done"
                        /\ call'[p].err = ErrCircuitBreakerOpen]_vars


\* C11: not settled here: the half-open state machine of the breaker is in
\* the module github.com/savier89/circuitbreaker, outside these sources.

\* the envelope of a successful acquisition
GoodEnvelope(r) ==
    /\ r.status = StatusOK /\ r.readable /\ r.valid
    /\ r.done /\ ~r.upd /\ r.errs = NoErrors /\ r.tok # ""

\* C12: a token response 200 with done=true, errors=null, updateRequired=false
\* and a non-empty access_token T makes GetToken succeed and store exactly T,
\* and every resource request built with T stored carries
\* "Authorization: Bearer T".
C12_AcquiredTokenIsAttached ==
    \A p \in Callers :
        /\ (call[p].op = "GetToken" /\ call[p].resps # <<>>
                /\ GoodEnvelope(call[p].resps[1])) =>
                /\ call[p].pc \in {"store", "done"}
                /\ Done(p) =>
                        /\ call[p].err = Nil
                        /\ call[p].wrote
                        /\ token = call[p].resps[1].tok
        /\ (call[p].op \in ResourceOps /\ token # "") =>
                /\ call[p].auth = "Bearer " \o token
                /\ \A k \in 1..Len(call[p].sent) : call[p].sent[k] = "Bearer " \o token

C12_Witness ==
    \E p \in Callers :
        /\ call[p].op = "GetUserInfo" /\ Done(p)
        /\ token = "t1"
        /\ call[p].sent = <<"Bearer t1">>

\* C13: the outcome of a token fetch for each failing response: a status
\* other than 200, 404, 405 is an unexpected-status error with the code;
\* 200 with done=false is the server's rejection with its errors; 200 with
\* done=true and errors non-null is a server error; 200 with done=true, errors
\* null and an empty access_token is ErrTokenNotFound. None writes the token.
C13_FetchFailureOutcomes ==
    \A p \in Callers :
        (call[p].op \in TokenOps /\ call[p].resps # <<>>) =>
            LET r == call[p].resps[1]
                e == call[p].err
                ok == r.status = StatusOK /\ r.readable /\ r.valid
            IN  /\ r.status \notin {StatusOK, StatusNotFound, StatusMethodNotAllowed} =>
                    /\ Done(p) /\ ~call[p].wrote
                    /\ Is(e, <<"token request failed with status">>)
                    /\ Is(e, <<CodeStr(r.status)>>)
                /\ (ok /\ ~r.done) =>
                    /\ Done(p) /\ ~call[p].wrote
                    /\ Is(e, <<"token request failed">>) /\ Is(e, <<r.errs>>)
                /\ (ok /\ r.done /\ ~r.upd /\ r.errs # NoErrors) =>
                    /\ Done(p) /\ ~call[p].wrote
                    /\ Is(e, <<"server returned errors">>) /\ Is(e, <<r.errs>>)
                /\ (ok /\ r.done /\ ~r.upd /\ r.errs = NoErrors /\ r.tok = "") =>
                    /\ Done(p) /\ ~call[p].wrote
                    /\ Is(e, ErrTokenNotFound)

\* C14: a token response with updateRequired=true fails, is not retried, and
\* its error is returned for no other outcome of the pipeline, the failure of
\* the transport's refresh function among them.
C14_RefreshRequiredIsDistinct ==
    \A p \in Callers :
        /\ (call[p].op \in TokenOps /\ call[p].resps # <<>>
                /\ call[p].resps[1].status = StatusOK /\ call[p].resps[1].valid
                /\ call[p].resps[1].done /\ call[p].resps[1].upd) =>
                /\ Done(p) /\ call[p].err # Nil /\ ~call[p].wrote
                /\ Len(call[p].resps) = 1
        /\ (Done(p) /\ Is(call[p].err, ErrTokenRefreshFailed)) =>
                /\ call[p].op \in FetchOps
                /\ call[p].resps # <<>>
                /\ call[p].resps[1].upd


\* C17: RoundTrip leaves the headers of the caller's request as they were,
\* whatever the token, the first response and the outcome of the refresh: the
\* Authorization header is set on a clone only.
C17_CallerRequestNotMutated ==
    \A p \in Callers :
        call[p].op = "RoundTrip" => call[p].origAuth = NoAuth

\* C18: the token of a successful refresh is stored, so that the first
\* attempt of the next request through the same transport carries it.
C18_NextRequestCarriesRefreshedToken ==
    [][\A p \in Callers :
        (/\ call[p].op = "RoundTrip" /\ Done(p) /\ call[p].newToken # ""
         /\ call'[p].op = "RoundTrip" /\ call'[p].pc = "do")
        => call'[p].auth = "Bearer " \o call[p].newToken]_vars

\* C19: a retried request answered 404 or 405 returns ErrEndpointNotFound or
\* ErrMethodNotAllowed, as the first response does, and no response.
C19_RetriedResponseIsMapped ==
    \A p \in Callers :
        (call[p].op = "RoundTrip" /\ Done(p) /\ Len(call[p].resps) = 2) =>
            /\ call[p].resps[2].status = StatusNotFound =>
                    Is(call[p].err, ErrEndpointNotFound) /\ call[p].retIdx = 0
            /\ call[p].resps[2].status = StatusMethodNotAllowed =>
                    Is(call[p].err, ErrMethodNotAllowed) /\ call[p].retIdx = 0

\* RoundTrip ended because RefreshFn, called after a 401, returned an error
RefreshFailed(p) ==
    /\ call[p].op = "RoundTrip" /\ Done(p)
    /\ call[p].refreshes = 1 /\ call[p].newToken = ""
    /\ call[p].resps # <<>> /\ call[p].resps[1].status = StatusUnauthorized

\* C20 as stated: a failing RefreshFn after a 401 makes RoundTrip return
\* ErrTokenExpired, with no second transport call and the stored token as
\* it was.
C20_RefreshFailureIsTokenExpired ==
    \A p \in Callers :
        RefreshFailed(p) =>
            /\ Is(call[p].err, ErrTokenExpired)
            /\ Calls(p) = 1
            /\ call[p].auth = AuthHeader(rtToken)

\* C20 amended: a failing RefreshFn after a 401 makes RoundTrip return
\* ErrTokenRefreshFailed and no response, with no second transport call and
\* the stored token as it was.
C20_RefreshFailureIsRefreshFailed ==
    \A p \in Callers :
        RefreshFailed(p) =>
            /\ call[p].err = ErrTokenRefreshFailed
            /\ ~Is(call[p].err, ErrTokenExpired)
            /\ call[p].retIdx = 0
            /\ Calls(p) = 1
            /\ call[p].sent = <<AuthHeader(rtToken)>>

C20_Witness ==
    \E p \in Callers :
        /\ RefreshFailed(p)
        /\ rtToken = "t1"
        /\ call[p].sent = <<"Bearer t1">>


\* C15: the token acquisition of NewAuthorizedDaichiClient takes no longer
\* than its 10-second timeout, also when every transport attempt fails and
\* the backoff waits are taken; it returns a client only when the acquisition
\* succeeded, and (nil, error) otherwise.
C15_AuthorizedClientBounded ==
    \A p \in Callers :
        call[p].op = "NewAuthorizedDaichiClient" =>
            /\ call[p].elapsed <= AuthTimeout
            /\ Done(p) =>
                /\ (call[p].ret = "client") <=> (call[p].err = Nil)
                /\ call[p].ret \in {"client", ""}
                /\ call[p].ret = "client" => (call[p].wrote /\ token # "")


\* The option WithRetries(n) applied by NewDaichiClient: the Timeout of the
\* client's http.Client afterwards. The option replaces c.httpClient by an
\* http.Client with a Transport and no Timeout; n is not used.
WithRetries(n, timeout) == 0

\* the arguments of WithRetries that are tried
RetriesOptions == {1, 2, 5}

\* NewDaichiClient(WithUsername(..), WithPassword(..), WithRetries(n)) of
\* http_client.go
InitOptions ==
    /\ snapshot = "http_client"
    /\ username \in {"", "user"}
    /\ password \in {"", "secret"}
    /\ withRetries \in {{n} : n \in RetriesOptions}
    /\ httpTimeout = WithRetries(Least(withRetries), RequestTimeout)
    /\ clientID = DefaultClientID
    /\ token = ""
    /\ rtToken = ""
    /\ refreshFn = FALSE
    /\ call = [p \in Callers |-> IdleCall]
    /\ failures = 0

\* the operations of the client
NextClient ==
    \E p \in Callers :
        \/ \E op \in TokenOps : StartToken(p, op)
        \/ StartAuthorized(p)
        \/ FetchDoFail(p)
        \/ \E r \in Responses : FetchDoResp(p, r)
        \/ FetchSleep(p)
        \/ StoreToken(p)
        \/ \E op \in ResourceOps : StartResource(p, op)
        \/ ResourceDoFail(p)
        \/ \E r \in Responses : ResourceDoResp(p, r)
        \/ Cancel(p)

SpecOptions == InitOptions /\ [][NextClient]_vars

\* C16: a client built with WithRetries(n) makes at most n transport attempts
\* per token fetch, and the option leaves the rest of the configuration, the
\* request timeout among it, as NewDaichiClient set it.
C16_WithRetriesBoundsAttempts ==
    \A n \in withRetries : \A p \in Callers :
        call[p].op \in FetchOps =>
            /\ Calls(p) <= n
            /\ httpTimeout = RequestTimeout


\* RoundTrip ended because the first transport call returned an error
FirstCallFailed(p) ==
    /\ call[p].op = "RoundTrip" /\ Done(p)
    /\ Calls(p) >= 1 /\ call[p].log[1] # "resp"

\* C21: an error of the underlying transport on the first call is returned
\* by RoundTrip as the same error, after that one transport call, with no
\* call of RefreshFn and the token as it was.
C21_TransportErrorUnchanged ==
    \A p \in Callers :
        FirstCallFailed(p) =>
            /\ call[p].err =
                   (IF call[p].log[1] = "canceled" THEN CtxCanceled ELSE NetErr)
            /\ call[p].retIdx = 0
            /\ Calls(p) = 1
            /\ call[p].refreshes = 0
            /\ call[p].sent = <<AuthHeader(rtToken)>>
            /\ ~call[p].wrote

C21_Witness ==
    \E p \in Callers :
        /\ FirstCallFailed(p)
        /\ refreshFn
        /\ call[p].err = NetErr
        /\ rtToken = "t1"

\* C27: one RoundTrip makes at most two transport calls and calls RefreshFn
\* at most once, and only after a first response with status 401.
C27_AtMostTwoCallsOneRefresh ==
    \A p \in Callers :
        call[p].op = "RoundTrip" =>
            /\ Calls(p) <= 2
            /\ call[p].refreshes <= 1
            /\ call[p].pc = "refresh" => call[p].refreshes = 0
            /\ (call[p].refreshes = 1 \/ call[p].pc = "refresh") =>
                    /\ Len(call[p].resps) >= 1
                    /\ call[p].log[1] = "resp"
                    /\ call[p].resps[1].status = StatusUnauthorized
            /\ Calls(p) = 2 => call[p].refreshes = 1

C27_Witness ==
    \E p \in Callers :
        /\ call[p].op = "RoundTrip" /\ Done(p)
        /\ Calls(p) = 2 /\ call[p].refreshes = 1
        /\ Len(call[p].resps) = 2
        /\ call[p].resps[2].status = StatusUnauthorized

\* C29: RoundTrip sends the request without Authorization header when its
\* token is empty and with "Bearer T" when its token is T; a response whose
\* status is not 401, 404 or 405 is returned as it is with a nil error.
C29_InjectionAndPassThrough ==
    \A p \in Callers :
        call[p].op = "RoundTrip" =>
            /\ (Calls(p) >= 1 /\ call[p].newToken = "") =>
                    call[p].sent[1] =
                        (IF rtToken = "" THEN NoAuth ELSE "Bearer " \o rtToken)
            /\ (Done(p) /\ call[p].log # <<>> /\ call[p].log[Calls(p)] = "resp"
                    /\ call[p].resps[Len(call[p].resps)].status \notin
                            {StatusUnauthorized, StatusNotFound, StatusMethodNotAllowed}) =>
                    /\ call[p].err = Nil
                    /\ call[p].retIdx = Len(call[p].resps)

C29_Witness ==
    \E p \in Callers :
        /\ call[p].op = "RoundTrip" /\ Done(p)
        /\ rtToken = "t2"
        /\ call[p].sent = <<"Bearer t2">>
        /\ Len(call[p].resps) = 1
        /\ call[p].resps[1].status = 500
        /\ call[p].err = Nil /\ call[p].retIdx = 1


\* C24: the wait after the k-th failed attempt of a token fetch is k seconds,
\* and a wait is taken between two attempts only: a fetch that has returned
\* has waited fewer times than it has called the transport.
C24_LinearBackoffBetweenAttempts ==
    \A p \in Callers :
        (snapshot = "http_client" /\ call[p].op \in FetchOps) =>
            /\ \A k \in 1..Len(call[p].waits) : call[p].waits[k] = k
            /\ (Done(p) /\ Calls(p) >= 1) => Len(call[p].waits) < Calls(p)

\* C25: the stored token is empty or a non-empty token that a successful
\* fetch returned, and once it is non-empty no step makes it empty again.
C25_TokenNeverEmptiedAgain ==
    /\ [](/\ token \in Tokens \cup {""}
          /\ \A p \in Callers :
                (call[p].op \in FetchOps /\ call[p].wrote) =>
                    /\ token # ""
                    /\ token = call[p].resps[Len(call[p].resps)].tok)
    /\ [][token # "" => token' # ""]_vars

C25_Witness ==
    \E p \in Callers :
        /\ token = "t1"
        /\ call[p].op = "RefreshToken" /\ Done(p)
        /\ Len(call[p].resps) = 1
        /\ GoodEnvelope([call[p].resps[1] EXCEPT !.tok = "t2"])
        /\ call[p].resps[1].tok = ""

\* C26: a GetToken or RefreshToken that returns an error has not written the
\* token: no step of a call that has not reached its store changes it.
C26_FailedFetchLeavesToken ==
    /\ [](\A p \in Callers :
            (call[p].op \in FetchOps /\ Done(p) /\ call[p].err # Nil) =>
                ~call[p].wrote)
    /\ [][\A p \in Callers :
            (call'[p].op \in FetchOps /\ call'[p] # call[p] /\ ~call'[p].wrote)
                => token' = token]_vars

C26_Witness ==
    \E p \in Callers :
        /\ token = "t1"
        /\ call[p].op = "GetToken" /\ Done(p)
        /\ call[p].err # Nil /\ Calls(p) = DefaultRetries
        /\ call[p].resps = <<>>

\* C28: fetchToken reports the first failure in the order: status 405, status
\* 404, another status than 200, undecodable body, done=false,
\* updateRequired=true, errors non-null, empty access_token.
C28_CheckPrecedence ==
    \A p \in Callers :
        (call[p].op \in FetchOps /\ Done(p) /\ call[p].resps # <<>>) =>
            LET r == call[p].resps[1]
                e == call[p].err
                ok == r.status = StatusOK
            IN  /\ r.status = StatusMethodNotAllowed => Is(e, ErrMethodNotAllowed)
                /\ r.status = StatusNotFound => Is(e, ErrEndpointNotFound)
                /\ r.status \notin {StatusOK, StatusNotFound, StatusMethodNotAllowed} =>
                        Is(e, <<"token request failed with status">>)
                /\ (ok /\ ~r.valid) =>
                        (\/ Is(e, <<"failed to decode token response">>)
                         \/ Is(e, <<"token unmarshal failed">>)
                         \/ Is(e, <<"failed to read token response">>))
                /\ (ok /\ r.valid /\ ~r.done) => Is(e, <<"token request failed">>)
                /\ (ok /\ r.valid /\ r.done /\ r.upd) => Is(e, ErrTokenRefreshFailed)
                /\ (ok /\ r.valid /\ r.done /\ ~r.upd /\ r.errs # NoErrors) =>
                        Is(e, <<"server returned errors">>)
                /\ (ok /\ r.valid /\ r.done /\ ~r.upd /\ r.errs = NoErrors /\ r.tok = "") =>
                        Is(e, ErrTokenNotFound)


----------------------------------------------------------------------------
(* Construction: NewDaichiClient(opts...) and                              *)
(* NewAuthorizedDaichiClient(ctx, username, password, opts...).            *)

\* the values of WithClientID(id), WithUsername(username), WithPassword(password)
OptionOf(name, val) == [name |-> name, val |-> val]

\* the options a caller passes
Options ==
    {OptionOf("WithClientID", "id1"), OptionOf("WithUsername", "other"),
     OptionOf("WithUsername", "user2"), OptionOf("WithPassword", "other")}

\* the longest list of options a caller passes
MaxOpts == 3

OptionLists == UNION {[1..n -> Options] : n \in 0..MaxOpts}

\* opt(client): each option assigns its one field
ApplyOption(c, o) ==
    CASE o.name = "WithClientID" -> [c EXCEPT !.clientID = o.val]
      [] o.name = "WithUsername" -> [c EXCEPT !.username = o.val]
      [] o.name = "WithPassword" -> [c EXCEPT !.password = o.val]

RECURSIVE ApplyOptions(_, _)
\* for _, opt := range opts { opt(client) }
ApplyOptions(c, opts) ==
    IF opts = <<>> THEN c
    ELSE ApplyOptions(ApplyOption(c, Head(opts)), Tail(opts))

\* NewDaichiClient: the fields of the client it returns
NewDaichiClient(opts) ==
    ApplyOptions([clientID |-> DefaultClientID, username |-> "", password |-> ""],
                 opts)

MutAuthorizedOptions(u, pw, opts) ==
    <<OptionOf("WithUsername", u), OptionOf("WithPassword", pw)>> \o opts

\* opts = append(opts, WithUsername(username), WithPassword(password))
AuthorizedOptions(u, pw, opts) ==
    opts \o <<OptionOf("WithUsername", u), OptionOf("WithPassword", pw)>>

\* no client is built yet
InitBuild ==
    /\ snapshot = "http_client"
    /\ username = "" /\ password = ""
    /\ httpTimeout = RequestTimeout
    /\ withRetries = {}
    /\ clientID = DefaultClientID
    /\ token = ""
    /\ rtToken = ""
    /\ refreshFn = FALSE
    /\ call = [p \in Callers |-> IdleCall]
    /\ failures = 0

\* client := NewDaichiClient(opts...), the first step of the caller.
Build(p, opts) ==
    /\ call[p].op = "none"
    /\ LET c == NewDaichiClient(opts)
       IN  /\ clientID' = c.clientID
           /\ username' = c.username
           /\ password' = c.password
    /\ token' = ""
    /\ failures' = 0
    /\ call' = [call EXCEPT ![p] =
                    [IdleCall EXCEPT !.op = "NewDaichiClient", !.opts = opts]]
    /\ UNCHANGED <<snapshot, httpTimeout, withRetries, rtToken, refreshFn>>

\* NewAuthorizedDaichiClient(ctx, u, pw, opts...) up to the first transport
\* call of its GetToken, the first step of the caller.
BuildAuthorized(p, u, pw, opts) ==
    /\ call[p].op = "none"
    /\ LET c == NewDaichiClient(AuthorizedOptions(u, pw, opts))
           k == [IdleCall EXCEPT !.op = "NewAuthorizedDaichiClient",
                                 !.opts = opts, !.args = <<u, pw>>,
                                 !.deadline = {AuthTimeout}]
       IN  /\ clientID' = c.clientID
           /\ username' = c.username
           /\ password' = c.password
           /\ call' = [call EXCEPT ![p] =
                  IF MissingCredentials(c.username, c.password)
                  THEN [k EXCEPT !.pc = "done", !.err = ErrMissingCredentials]
                  ELSE [k EXCEPT !.pc = "do"]]
    /\ token' = ""
    /\ failures' = 0
    /\ UNCHANGED <<snapshot, httpTimeout, withRetries, rtToken, refreshFn>>

\* the token responses with a success envelope
EnvelopeResponses ==
    { r \in Responses :
        /\ r.status = StatusOK /\ r.readable /\ r.valid
        /\ r.done /\ ~r.upd /\ r.errs = NoErrors }

NextBuild ==
    \E p \in Callers :
        \/ \E opts \in OptionLists : Build(p, opts)
        \/ \E u \in {"", "user"}, pw \in {"", "secret"}, opts \in OptionLists :
                BuildAuthorized(p, u, pw, opts)
        \/ FetchDoFail(p)
        \/ \E r \in EnvelopeResponses : FetchDoResp(p, r)
        \/ FetchSleep(p)
        \/ StoreToken(p)

SpecBuild == InitBuild /\ [][NextBuild]_vars

\* the value of the last option named name in opts, or default
LastOf(opts, name, default) ==
    LET ks == {k \in 1..Len(opts) : opts[k].name = name}
    IN  IF ks = {} THEN default
        ELSE opts[CHOOSE k \in ks : \A j \in ks : j <= k].val

\* C30: the options are applied in order, a later one overwriting an earlier
\* one of the same field; the positional credentials of
\* NewAuthorizedDaichiClient win over the caller's WithUsername and
\* WithPassword; the client id is DefaultClientID unless WithClientID is given.
C30_OptionsInOrderPositionalWin ==
    \A p \in Callers :
        /\ call[p].op = "NewDaichiClient" =>
                /\ clientID = LastOf(call[p].opts, "WithClientID", DefaultClientID)
                /\ username = LastOf(call[p].opts, "WithUsername", "")
                /\ password = LastOf(call[p].opts, "WithPassword", "")
        /\ (call[p].op = "NewAuthorizedDaichiClient" /\ call[p].args # <<>>) =>
                /\ clientID = LastOf(call[p].opts, "WithClientID", DefaultClientID)
                /\ username = call[p].args[1]
                /\ password = call[p].args[2]

C30_Witness ==
    \E p \in Callers :
        /\ call[p].op = "NewAuthorizedDaichiClient" /\ Done(p)
        /\ call[p].opts = <<OptionOf("WithUsername", "other"),
                            OptionOf("WithClientID", "id1"),
                            OptionOf("WithPassword", "other")>>
        /\ call[p].args = <<"user", "secret">>
        /\ username = "user" /\ password = "secret" /\ clientID = "id1"
        /\ call[p].ret = "client"


----------------------------------------------------------------------------
(* Concurrent use of one client and one AuthRoundTripper (http_client.go,  *)
(* part_002) by several goroutines, at the grain of the accesses to the    *)
(* two token slots c.token and rt.Token. A Go string is two words, data    *)
(* and length; an assignment without a lock stores them one by one.        *)

Threads == {"g1", "g2"}

\* the value of a string slot whose data word is of d and whose length word
\* is of l
Mix(d, l) == IF d = l THEN d ELSE d \o "/" \o l

SlotValues == Tokens \cup {""}

DataOf(s) == CHOOSE d \in SlotValues : \E l \in SlotValues : s = Mix(d, l)
LenOf(s) == CHOOSE l \in SlotValues : \E d \in SlotValues : s = Mix(d, l)

\* the statuses the server answers with here
ConcurrentResponses == {r \in RoundTripResponses : r.status \in {StatusOK, StatusUnauthorized}}

InitConcurrent ==
    /\ snapshot = "http_client"
    /\ username = "user" /\ password = "secret"
    /\ httpTimeout = RequestTimeout
    /\ withRetries = {}
    /\ clientID = DefaultClientID
    /\ token = ""
    /\ rtToken \in {"", "t1"}
    /\ refreshFn = TRUE
    /\ call = [p \in Threads |-> IdleCall]
    /\ failures = 0

\* RoundTrip begins: if rt.Token != "" reads the slot, with no lock.
RtReadBegin(p) ==
    /\ call[p].op = "none"
    /\ Update(p, [IdleCall EXCEPT !.op = "RoundTrip", !.pc = "read",
                                   !.access = "read rt.Token"])
    /\ UNCHANGED <<snapshot, username, password, httpTimeout, withRetries, clientID, token, rtToken, refreshFn>>

\* ... and the clone gets "Bearer "+rt.Token, whatever the slot holds now.
RtReadEnd(p) ==
    /\ call[p].pc = "read"
    /\ Update(p, [call[p] EXCEPT !.pc = "do", !.access = "",
                                 !.isClone = (rtToken # ""),
                                 !.auth = AuthHeader(rtToken)])
    /\ UNCHANGED <<snapshot, username, password, httpTimeout, withRetries, clientID, token, rtToken, refreshFn>>

\* RefreshFn returned t: rt.Token = newToken begins, with no lock.
RtWriteBegin(p, t) ==
    /\ call[p].pc = "refresh"
    /\ Update(p, [call[p] EXCEPT !.pc = "write", !.refreshes = @ + 1,
                                 !.newToken = t,
                                 !.access = "write rt.Token",
                                 !.pending = {"data", "len"}])
    /\ UNCHANGED <<snapshot, username, password, httpTimeout, withRetries, clientID, token, rtToken, refreshFn>>

\* one word of rt.Token = newToken is stored; after the second the request
\* is cloned with "Bearer "+newToken.
RtWriteWord(p, h) ==
    /\ call[p].pc = "write"
    /\ h \in call[p].pending
    /\ rtToken' = IF h = "data"
                  THEN Mix(call[p].newToken, LenOf(rtToken))
                  ELSE Mix(DataOf(rtToken), call[p].newToken)
    /\ IF call[p].pending = {h}
       THEN Update(p, [call[p] EXCEPT !.pc = "retry", !.pending = {},
                                      !.access = "",
                                      !.auth = Bearer(call[p].newToken)])
       ELSE Update(p, [call[p] EXCEPT !.pending = @ \ {h}])
    /\ UNCHANGED <<snapshot, username, password, httpTimeout, withRetries, clientID, token, refreshFn>>

\* c.tokenMutex.Lock() of GetToken / RefreshToken
TokenLock(p) ==
    /\ call[p].pc = "store"
    /\ \A q \in Threads : call[q].lock = ""
    /\ Update(p, [call[p] EXCEPT !.pc = "locked", !.lock = "W",
                                 !.access = "write c.token"])
    /\ UNCHANGED <<snapshot, username, password, httpTimeout, withRetries, clientID, token, rtToken, refreshFn>>

\* c.token = token; c.tokenMutex.Unlock(); return
TokenUnlock(p) ==
    /\ call[p].pc = "locked"
    /\ token' = call[p].ret
    /\ Update(p, [call[p] EXCEPT !.pc = "done", !.wrote = TRUE, !.err = Nil,
                                 !.lock = "", !.access = ""])
    /\ UNCHANGED <<snapshot, username, password, httpTimeout, withRetries, clientID, rtToken, refreshFn>>

\* a resource call begins: c.tokenMutex.RLock()
TokenRLock(p, op) ==
    /\ call[p].op = "none"
    /\ op \in ResourceOps \cap OpsOf(snapshot)
    /\ \A q \in Threads : call[q].lock # "W"
    /\ Update(p, [IdleCall EXCEPT !.op = op, !.pc = "rlocked", !.lock = "R",
                                   !.access = "read c.token"])
    /\ UNCHANGED <<snapshot, username, password, httpTimeout, withRetries, clientID, token, rtToken, refreshFn>>

\* token := c.token; c.tokenMutex.RUnlock(); the header is set
TokenRUnlock(p) ==
    /\ call[p].pc = "rlocked"
    /\ Update(p, [call[p] EXCEPT !.pc = "do", !.lock = "", !.access = "",
                                 !.auth = AuthHeader(token)])
    /\ UNCHANGED <<snapshot, username, password, httpTimeout, withRetries, clientID, token, rtToken, refreshFn>>

\* each goroutine makes one call
NextConcurrent ==
    \E p \in Threads :
        \/ RtReadBegin(p)
        \/ RtReadEnd(p)
        \/ RoundTripDoFail(p)
        \/ \E r \in ConcurrentResponses : RoundTripDoResp(p, r)
        \/ RefreshFail(p)
        \/ \E t \in Tokens : RtWriteBegin(p, t)
        \/ \E h \in {"data", "len"} : RtWriteWord(p, h)
        \/ RetryDoFail(p)
        \/ \E r \in ConcurrentResponses : RetryDoResp(p, r)
        \/ (call[p].op = "none" /\ StartToken(p, "RefreshToken"))
        \/ FetchDoFail(p)
        \/ \E r \in EnvelopeResponses : FetchDoResp(p, r)
        \/ FetchSleep(p)
        \/ TokenLock(p)
        \/ TokenUnlock(p)
        \/ \E op \in {"GetUserInfo"} : TokenRLock(p, op)
        \/ TokenRUnlock(p)
        \/ ResourceDoFail(p)
        \/ \E r \in EnvelopeResponses : ResourceDoResp(p, r)

SpecConcurrent == InitConcurrent /\ [][NextConcurrent]_vars

\* C22: no token slot is read while it is being written, and none is written
\* by two writers at once; c.token is read under the shared lock and written
\* under the exclusive lock.
C22_TokenSlotAccessDiscipline ==
    \A p \in Threads : \A q \in Threads \ {p} :
        /\ call[p].access = "write c.token" =>
                call[q].access \notin {"read c.token", "write c.token"}
        /\ call[p].access = "write rt.Token" =>
                call[q].access \notin {"read rt.Token", "write rt.Token"}
        /\ call[p].access = "write c.token" => call[p].lock = "W"
        /\ call[p].access = "read c.token" => call[p].lock = "R"

\* every goroutine has refreshed through the transport and returned
AllRefreshed ==
    \A p \in Threads :
        call[p].op = "RoundTrip" /\ Done(p) /\ call[p].newToken # ""

\* C23: when the goroutines have each observed a 401, each has called the
\* refresh function once, and when all have finished the stored token is one
\* of the refreshed tokens, not a mix and not the token from before.
C23_LastRefreshWins ==
    /\ AllRefreshed =>
            /\ \A p \in Threads : call[p].refreshes = 1
            /\ \E p \in Threads : rtToken = call[p].newToken
    /\ (\A p \in Threads : call[p].op = "RefreshToken" /\ Done(p) /\ call[p].wrote) =>
            \E p \in Threads : token = call[p].ret

====
